---- MODULE Spec2Model ----
(***************************************************************************)
(* VidSrcToScraper (mov_cli_films/vidsrcto/scraper.py): the URL            *)
(* deobfuscation __deobf (alphabet substitution, base64 decode, key        *)
(* schedule, keystream XOR, UTF-8 decode, percent-decode) and the search   *)
(* cache shared by search and scrape.                                      *)
(*                                                                         *)
(* A str is a sequence of code points, a bytes object a sequence of        *)
(* 0..255.  An outcome is [exc, value]: exc = "" for a returned value.     *)
(***************************************************************************)
EXTENDS Integers, Sequences, FiniteSets, TLC

VARIABLES
  frames,        \* thread -> the locals of its __deobf call
  s,             \* table owner -> the permutation table s
  log,           \* history: the <<token, outcome>> of every returned call
  search_cache,  \* self.__search_cache: media id -> embed response
  pending,       \* the search generator: alive, and the results not yet visited
  last,          \* history: the scraper operation that ran last
  since_hit      \* history: what happened since the last scrape that found its entry

vars == <<frames, s, log, search_cache, pending, last, since_hit>>

(***************************************************************************)
(* Characters                                                              *)
(***************************************************************************)
Printable ==
  <<" ", "!", "QUOTE", "#", "$", "%", "&", "'", "(", ")", "*", "+", ",", "-", ".", "/",
    "0", "1", "2", "3", "4", "5", "6", "7", "8", "9", ":", ";", "<", "=", ">", "?",
    "@", "A", "B", "C", "D", "E", "F", "G", "H", "I", "J", "K", "L", "M", "N", "O",
    "P", "Q", "R", "S", "T", "U", "V", "W", "X", "Y", "Z", "[", "BACKSLASH", "]", "^", "_",
    "BACKTICK", "a", "b", "c", "d", "e", "f", "g", "h", "i", "j", "k", "l", "m", "n", "o",
    "p", "q", "r", "s", "t", "u", "v", "w", "x", "y", "z", "{", "|", "}", "~">>

\* ord(c) of a printable ASCII character
Ord(c) == 31 + (CHOOSE n \in 1..Len(Printable) : Printable[n] = c)

\* the str whose characters are the one-character strings of cs
Str(cs) == [n \in 1..Len(cs) |-> Ord(cs[n])]

Ok(v) == [exc |-> "", value |-> v]
Raise(e) == [exc |-> e, value |-> <<>>]

(***************************************************************************)
(* Bytes                                                                   *)
(***************************************************************************)
RECURSIVE Xor(_, _)
\* a ^ b on non-negative integers
Xor(a, b) ==
  IF a = 0 THEN b
  ELSE IF b = 0 THEN a
  ELSE ((a + b) % 2) + 2 * Xor(a \div 2, b \div 2)

\* str.replace(old, new) for one-character old and new
Replace(str, old, new) == [n \in 1..Len(str) |-> IF str[n] = old THEN new ELSE str[n]]

\* the mapping swapped: '_' to '+' and '-' to '/'
StandardizeSwapped(encoded_url) ==
  Replace(Replace(encoded_url, Ord("_"), Ord("+")), Ord("-"), Ord("/"))

\* encoded_url.replace('_', '/').replace('-', '+')
Standardize(encoded_url) ==
  Replace(Replace(encoded_url, Ord("_"), Ord("/")), Ord("-"), Ord("+"))

\* binascii's table_a2b_base64: the 6-bit value of a character, 64 for none
B64Value(ch) ==
  IF ch >= Ord("A") /\ ch <= Ord("Z") THEN ch - Ord("A")
  ELSE IF ch >= Ord("a") /\ ch <= Ord("z") THEN ch - Ord("a") + 26
  ELSE IF ch >= Ord("0") /\ ch <= Ord("9") THEN ch - Ord("0") + 52
  ELSE IF ch = Ord("+") THEN 62
  ELSE IF ch = Ord("/") THEN 63
  ELSE 64

\* binascii.a2b_base64 in its default, non-strict mode, at one character:
\* a character outside the alphabet is skipped and a completed pad
\* sequence ends the parse (done)
A2bChar(st, this_ch) ==
  LET v == B64Value(this_ch)
  IN IF st.done THEN st
     ELSE IF this_ch = Ord("=")
     THEN IF st.quad_pos >= 2 /\ st.quad_pos + st.pads + 1 >= 4
          THEN [st EXCEPT !.done = TRUE]
          ELSE [st EXCEPT !.pads = IF st.quad_pos >= 2 THEN @ + 1 ELSE @]
     ELSE IF v >= 64 THEN st
     ELSE IF st.quad_pos = 0
     THEN [st EXCEPT !.quad_pos = 1, !.leftchar = v, !.pads = 0]
     ELSE IF st.quad_pos = 1
     THEN [st EXCEPT !.quad_pos = 2, !.leftchar = v % 16, !.pads = 0,
                     !.out = Append(@, ((st.leftchar * 4) + (v \div 16)) % 256)]
     ELSE IF st.quad_pos = 2
     THEN [st EXCEPT !.quad_pos = 3, !.leftchar = v % 4, !.pads = 0,
                     !.out = Append(@, ((st.leftchar * 16) + (v \div 4)) % 256)]
     ELSE [st EXCEPT !.quad_pos = 0, !.leftchar = 0, !.pads = 0,
                     !.out = Append(@, ((st.leftchar * 64) + v) % 256)]

RECURSIVE A2bScan(_, _, _, _)
\* the characters data[a..b] in order, from state st
A2bScan(st, data, a, b) ==
  IF a > b THEN st
  ELSE IF a = b THEN A2bChar(st, data[a])
  ELSE LET h == A2bScan(st, data, a, (a + b) \div 2)
       IN IF h.done THEN h ELSE A2bScan(h, data, (a + b) \div 2 + 1, b)

\* binascii.a2b_base64(data): an unfinished quad at the end is an error
A2bBase64(data) ==
  LET st == A2bScan([quad_pos |-> 0, leftchar |-> 0, pads |-> 0, out |-> <<>>,
                     done |-> FALSE], data, 1, Len(data))
  IN IF ~st.done /\ st.quad_pos # 0 THEN Raise("binascii.Error") ELSE Ok(st.out)

\* base64.b64decode(s) of a str: encoded as ASCII first (ValueError on any
\* other character), then decoded without validation
B64Decode(str) ==
  IF \E n \in 1..Len(str) : str[n] > 127
  THEN Raise("ValueError")
  ELSE A2bBase64(str)

(***************************************************************************)
(* bytes.decode("utf-8", errors) and urllib.parse.unquote                  *)
(***************************************************************************)
ByteAt(b, n) == IF n <= Len(b) THEN b[n] ELSE -1

IsContinuation(x) == x >= 128 /\ x <= 191

\* one step of the UTF-8 decoder at position n: the bytes consumed and the
\* code point, -1 for an invalid sequence (the maximal invalid prefix)
Utf8Step(b, n) ==
  LET b0 == b[n]
      b1 == ByteAt(b, n + 1)
      b2 == ByteAt(b, n + 2)
      b3 == ByteAt(b, n + 3)
  IN IF b0 < 128 THEN [len |-> 1, cp |-> b0]
     ELSE IF b0 >= 194 /\ b0 <= 223
     THEN IF IsContinuation(b1)
          THEN [len |-> 2, cp |-> (b0 - 192) * 64 + (b1 - 128)]
          ELSE [len |-> 1, cp |-> -1]
     ELSE IF b0 >= 224 /\ b0 <= 239
     THEN IF ~(b1 >= (IF b0 = 224 THEN 160 ELSE 128) /\ b1 <= (IF b0 = 237 THEN 159 ELSE 191))
          THEN [len |-> 1, cp |-> -1]
          ELSE IF ~IsContinuation(b2)
          THEN [len |-> 2, cp |-> -1]
          ELSE [len |-> 3, cp |-> (b0 - 224) * 4096 + (b1 - 128) * 64 + (b2 - 128)]
     ELSE IF b0 >= 240 /\ b0 <= 244
     THEN IF ~(b1 >= (IF b0 = 240 THEN 144 ELSE 128) /\ b1 <= (IF b0 = 244 THEN 143 ELSE 191))
          THEN [len |-> 1, cp |-> -1]
          ELSE IF ~IsContinuation(b2)
          THEN [len |-> 2, cp |-> -1]
          ELSE IF ~IsContinuation(b3)
          THEN [len |-> 3, cp |-> -1]
          ELSE [len |-> 4, cp |-> (b0 - 240) * 262144 + (b1 - 128) * 4096
                                   + (b2 - 128) * 64 + (b3 - 128)]
     ELSE [len |-> 1, cp |-> -1]

\* the decoder at position pos, which it skips unless the sequence before
\* ended just there: "strict" raises on an invalid sequence, "replace"
\* puts U+FFFD for it
Utf8At(st, b, errors, pos) ==
  IF st.exc # "" \/ pos # st.n THEN st
  ELSE LET u == Utf8Step(b, pos)
       IN IF u.cp >= 0 THEN [st EXCEPT !.n = pos + u.len, !.out = Append(@, u.cp)]
          ELSE IF errors = "strict" THEN [st EXCEPT !.exc = "UnicodeDecodeError"]
          ELSE [st EXCEPT !.n = pos + u.len, !.out = Append(@, 65533)]

RECURSIVE Utf8Scan(_, _, _, _, _)
\* the positions lo..hi of b in order, from state st
Utf8Scan(st, b, errors, lo, hi) ==
  IF lo > hi THEN st
  ELSE IF lo = hi THEN Utf8At(st, b, errors, lo)
  ELSE LET h == Utf8Scan(st, b, errors, lo, (lo + hi) \div 2)
       IN IF h.exc # "" THEN h ELSE Utf8Scan(h, b, errors, (lo + hi) \div 2 + 1, hi)

\* b.decode("utf-8", errors)
Utf8Decode(b, errors) ==
  LET st == Utf8Scan([n |-> 1, out |-> <<>>, exc |-> ""], b, errors, 1, Len(b))
  IN IF st.exc # "" THEN Raise(st.exc) ELSE Ok(st.out)

\* the value of a hexadecimal digit, 16 for any other character
HexValue(ch) ==
  IF ch >= Ord("0") /\ ch <= Ord("9") THEN ch - Ord("0")
  ELSE IF ch >= Ord("A") /\ ch <= Ord("F") THEN ch - Ord("A") + 10
  ELSE IF ch >= Ord("a") /\ ch <= Ord("f") THEN ch - Ord("a") + 10
  ELSE 16

\* unquote_to_bytes at position pos, which it skips inside an escape: %XX
\* with two hexadecimal digits is the byte, any other % stays
UnquoteAt(st, str, pos) ==
  IF pos # st.n THEN st
  ELSE IF str[pos] = Ord("%") /\ pos + 2 <= Len(str)
          /\ HexValue(str[pos + 1]) < 16 /\ HexValue(str[pos + 2]) < 16
  THEN [n |-> pos + 3,
        out |-> Append(st.out, HexValue(str[pos + 1]) * 16 + HexValue(str[pos + 2]))]
  ELSE [n |-> pos + 1, out |-> Append(st.out, str[pos])]

RECURSIVE UnquoteScan(_, _, _, _)
\* the positions lo..hi of str in order, from state st
UnquoteScan(st, str, lo, hi) ==
  IF lo > hi THEN st
  ELSE IF lo = hi THEN UnquoteAt(st, str, lo)
  ELSE LET h == UnquoteScan(st, str, lo, (lo + hi) \div 2)
       IN IF h.n > hi THEN h ELSE UnquoteScan(h, str, (lo + hi) \div 2 + 1, hi)

\* urllib.parse.unquote_to_bytes of an ASCII str
UnquoteToBytes(str) == UnquoteScan([n |-> 1, out |-> <<>>], str, 1, Len(str)).out

\* the last position of the run of ASCII characters that starts at n
AsciiRunEnd(str, n) ==
  CHOOSE e \in n..Len(str) :
    /\ e = Len(str) \/ str[e + 1] > 127
    /\ \A q \in n..e : str[q] <= 127

\* unquote at position pos, which it skips inside a run: a run of ASCII
\* characters is unquoted to bytes and decoded with errors="replace", any
\* other character is kept
PartAt(st, str, pos) ==
  IF pos # st.n THEN st
  ELSE IF str[pos] > 127 THEN [n |-> pos + 1, out |-> Append(st.out, str[pos])]
  ELSE LET e == AsciiRunEnd(str, pos)
       IN [n |-> e + 1,
           out |-> st.out \o Utf8Decode(UnquoteToBytes(SubSeq(str, pos, e)), "replace").value]

RECURSIVE PartScan(_, _, _, _)
\* the positions lo..hi of str in order, from state st
PartScan(st, str, lo, hi) ==
  IF lo > hi THEN st
  ELSE IF lo = hi THEN PartAt(st, str, lo)
  ELSE LET h == PartScan(st, str, lo, (lo + hi) \div 2)
       IN IF h.n > hi THEN h ELSE PartScan(h, str, (lo + hi) \div 2 + 1, hi)

UnquoteParts(str) == PartScan([n |-> 1, out |-> <<>>], str, 1, Len(str)).out

\* urllib.parse.unquote(string)
Unquote(str) ==
  IF \A n \in 1..Len(str) : str[n] # Ord("%") THEN str ELSE UnquoteParts(str)

(***************************************************************************)
(* __deobf, one step at a time.  A frame holds the locals of one call; the *)
(* table s is kept beside it.  An unbound integer local is -1.  it is the   *)
(* position of the range iterator of the running loop; ksa_rounds,         *)
(* prga_iters and branches record the rounds run and the branches of lines *)
(* 129-134 taken.                                                          *)
(***************************************************************************)
Unbound == [type |-> "unbound", items |-> <<>>]

\* key_bytes = bytes("8z5Ag5wgagfsOuhz", 'utf-8')
key_bytes == Str(<<"8", "z", "5", "A", "g", "5", "w", "g", "a", "g", "f", "s", "O", "u", "h", "z">>)

\* the frame of a call that is about to run line 108
NewFrame(encoded_url) ==
  [pc |-> "decode", encoded_url |-> encoded_url, binary_data |-> Unbound,
   j |-> -1, i |-> -1, k |-> -1, t |-> -1, index |-> -1, decoded |-> Unbound,
   it |-> 0, ksa_rounds |-> 0, prga_iters |-> 0, branches |-> {},
   result |-> Raise("pending")]

Finish(f, outcome) == [f EXCEPT !.pc = "done", !.result = outcome]

RECURSIVE Range(_, _)
\* the sequence a, a+1, ..., b (a <= b)
Range(a, b) ==
  IF a = b THEN <<a>>
  ELSE Range(a, (a + b) \div 2) \o Range((a + b) \div 2 + 1, b)

RECURSIVE Zeros(_)
\* bytearray(n): n zero bytes
Zeros(n) ==
  IF n = 0 THEN <<>>
  ELSE IF n = 1 THEN <<0>>
  ELSE Zeros(n \div 2) \o Zeros(n - n \div 2)

\* the table made by the first call and kept for the later ones
CachedTable(old) == IF old = Zeros(256) THEN Range(0, 255) ELSE old

\* s = bytearray(range(256)); old is what the name held before.  The byte
\* at Python index x of a table is table[x + 1]
InitialTable(old) == Range(0, 255)

\* table[x]
At(table, x) == table[x + 1]

\* s[a] = s[b]; s[b] = s[a]: the second assignment reads the new s[a]
SwapInTurn(table, a, b) == [table EXCEPT ![a + 1] = At(table, b)]

\* s[a], s[b] = s[b], s[a]
Swap(table, a, b) == [table EXCEPT ![a + 1] = At(table, b), ![b + 1] = At(table, a)]

\* a one-byte slice, binary_data[index:index + 1], in place of the byte
GetItemSlice(obj, index) == [type |-> "bytes", value |-> obj.items[index + 1]]

\* binary_data[index]: indexing a bytes object yields an int
GetItem(obj, index) ==
  IF obj.type = "bytes" THEN [type |-> "int", value |-> obj.items[index + 1]]
  ELSE [type |-> "str", value |-> obj.items[index + 1]]

\* isinstance(item, cls)
IsInstance(item, cls) == item.type = cls

\* lines 108-109 with a shortcut: nothing to decrypt, return at once
DecodeStepShortcut(f, table) ==
  LET r == B64Decode(Standardize(f.encoded_url))
  IN IF r.exc # "" THEN [f |-> Finish(f, r), s |-> table]
     ELSE IF r.value = <<>> THEN [f |-> Finish(f, Ok(<<>>)), s |-> table]
     ELSE [f |-> [f EXCEPT !.pc = "ksa_init",
                           !.binary_data = [type |-> "bytes", items |-> r.value]],
           s |-> table]

\* lines 108-109
DecodeStep(f, table) ==
  LET standardized_input == Standardize(f.encoded_url)
      r == B64Decode(standardized_input)
  IN IF r.exc # ""
     THEN [f |-> Finish(f, r), s |-> table]
     ELSE [f |-> [f EXCEPT !.pc = "ksa_init",
                           !.binary_data = [type |-> "bytes", items |-> r.value]],
           s |-> table]

\* lines 111-113
KsaInitStep(f, table) ==
  [f |-> [f EXCEPT !.pc = "ksa", !.j = 0, !.it = 0], s |-> InitialTable(table)]

\* a round whose j starts from 0 instead of the previous round's j
KsaRoundStepNoCarry(f, table) ==
  LET i == f.it
      j == (table[i + 1] + key_bytes[(i % Len(key_bytes)) + 1]) % 256
  IN [f |-> [f EXCEPT !.i = i, !.j = j, !.it = i + 1, !.ksa_rounds = @ + 1],
      s |-> [table EXCEPT ![i + 1] = table[j + 1], ![j + 1] = table[i + 1]]]

\* lines 116-117, one round of the loop of line 115
KsaRoundStep(f, table) ==
  LET i == f.it
      j == (f.j + At(table, i) + key_bytes[(i % Len(key_bytes)) + 1]) % 256
  IN [f |-> [f EXCEPT !.i = i, !.j = j, !.it = i + 1, !.ksa_rounds = @ + 1],
      s |-> Swap(table, i, j)]

\* lines 119-121 without i = 0 and k = 0: the key schedule's i and j go on
PrgaInitStepStale(f, table) ==
  [f |-> [f EXCEPT !.pc = "prga", !.k = f.j, !.it = 0,
                   !.decoded = [type |-> "bytearray",
                                items |-> Zeros(Len(f.binary_data.items))]],
   s |-> table]

\* lines 119-121, once the loop of line 115 is exhausted
PrgaInitStep(f, table) ==
  [f |-> [f EXCEPT !.pc = "prga", !.i = 0, !.k = 0, !.it = 0,
                   !.decoded = [type |-> "bytearray",
                                items |-> Zeros(Len(f.binary_data.items))]],
   s |-> table]

\* lines 124-134, one iteration of the loop of line 123
PrgaRoundStep(f, table) ==
  LET index == f.it
      i == (f.i + 1) % 256
      k == (f.k + At(table, i)) % 256
      swapped == Swap(table, i, k)
      t == (At(swapped, i) + At(swapped, k)) % 256
      item == GetItem(f.binary_data, index)
      branch == IF IsInstance(item, "str") THEN "str"
                ELSE IF IsInstance(item, "int") THEN "int" ELSE "else"
      g == [f EXCEPT !.index = index, !.i = i, !.k = k, !.t = t, !.it = index + 1,
                     !.prga_iters = @ + 1, !.branches = @ \cup {branch}]
  IN IF branch \in {"str", "int"}
     THEN IF f.decoded.type # "bytearray"
          THEN [f |-> Finish(g, Raise("TypeError")), s |-> swapped]
          ELSE [f |-> [g EXCEPT !.decoded.items[index + 1] = Xor(item.value, At(swapped, t))],
                s |-> swapped]
     ELSE [f |-> [g EXCEPT !.decoded = [type |-> "bool", items |-> <<>>]], s |-> swapped]

\* line 136, once the loop of line 123 is exhausted
ReturnStep(f, table) ==
  IF f.decoded.type # "bytearray"
  THEN [f |-> Finish(f, Raise("AttributeError")), s |-> table]
  ELSE LET text == Utf8Decode(f.decoded.items, "strict")
       IN IF text.exc # ""
          THEN [f |-> Finish(f, text), s |-> table]
          ELSE [f |-> Finish(f, Ok(Unquote(text.value))), s |-> table]

\* the next step of a call that has not returned
Step(f, table) ==
  IF f.pc = "decode" THEN DecodeStep(f, table)
  ELSE IF f.pc = "ksa_init" THEN KsaInitStep(f, table)
  ELSE IF f.pc = "ksa"
  THEN IF f.it < 256 THEN KsaRoundStep(f, table) ELSE PrgaInitStep(f, table)
  ELSE IF f.it < Len(f.binary_data.items) THEN PrgaRoundStep(f, table)
  ELSE ReturnStep(f, table)

\* a call's frame and table after its next step; a returned call stays
StepOrStay(st) == IF st.f.pc = "done" THEN st ELSE Step(st.f, st.s)

RECURSIVE RunSteps(_, _)
\* n steps of a call, uninterrupted
RunSteps(st, n) ==
  IF n = 0 THEN st
  ELSE IF n = 1 THEN StepOrStay(st)
  ELSE LET half == RunSteps(st, n \div 2)
       IN IF half.f.pc = "done" THEN half ELSE RunSteps(half, n - n \div 2)

\* the steps of the longest call on a token of n characters: lines 108-109,
\* 111-113, 256 rounds, 119-121, at most n iterations, line 136
MaxSteps(n) == 260 + n

\* a call run to its end without interruption
Run(f, table) == RunSteps([f |-> f, s |-> table], MaxSteps(Len(f.encoded_url)))

\* __deobf(encoded_url): the frame the call ends with
Deobf(encoded_url) == Run(NewFrame(encoded_url), Zeros(256)).f

(***************************************************************************)
(* Reference encoder and reference keystream, written from the cipher's    *)
(* textbook definition and independent of the definitions above.  They     *)
(* build test tokens and state the properties; they model no code.         *)
(***************************************************************************)
RefKey == <<56, 122, 53, 65, 103, 53, 119, 103, 97, 103, 102, 115, 79, 117, 104, 122>>

RefIdentity == [x \in 0..255 |-> x]

RefSwap(S, a, b) == [x \in 0..255 |-> IF x = a THEN S[b] ELSE IF x = b THEN S[a] ELSE S[x]]

\* a function in explicit form, so that no chain of unevaluated updates builds up
RefForce(S) == IF S = RefIdentity THEN RefIdentity ELSE S

RECURSIVE RefSchedule(_, _, _)
\* the key schedule's rounds a..b-1 applied to st = [S, j]
RefSchedule(st, a, b) ==
  IF b - a = 1
  THEN LET j == (st.j + st.S[a] + RefKey[(a % 16) + 1]) % 256
       IN [S |-> RefForce(RefSwap(st.S, a, j)), j |-> j]
  ELSE LET m == (a + b) \div 2
           h == RefSchedule(st, a, m)
       IN IF h.j < 0 THEN h ELSE RefSchedule(h, m, b)  \* j is never negative

\* the table after the 256 rounds of the key schedule
RefScheduled == RefSchedule([S |-> RefIdentity, j |-> 0], 0, 256).S

\* one output byte of the generator, from state st = [S, i, k, out]
RefOutput(st) ==
  LET i == (st.i + 1) % 256
      k == (st.k + st.S[i]) % 256
      S == RefForce(RefSwap(st.S, i, k))
  IN [S |-> S, i |-> i, k |-> k, out |-> Append(st.out, S[(S[i] + S[k]) % 256])]

RECURSIVE RefGenerate(_, _)
\* the generator's state after n more output bytes
RefGenerate(st, n) ==
  IF n = 0 THEN st
  ELSE IF n = 1 THEN RefOutput(st)
  ELSE LET h == RefGenerate(st, n \div 2)
       IN IF h.i < 0 THEN h ELSE RefGenerate(h, n - n \div 2)  \* i is never negative

\* the first n keystream bytes under the fixed secret
RefKeystream(n) == RefGenerate([S |-> RefScheduled, i |-> 0, k |-> 0, out |-> <<>>], n).out

\* the first keystream bytes as produced by an independent implementation
GoldenKeystream ==
  <<61, 136, 27, 105, 249, 18, 4, 139, 27, 97, 13, 246, 14, 246, 135, 107, 201, 255,
    127, 136, 246, 144, 128, 3, 18, 87, 156, 6, 69, 66, 251, 21, 40, 144, 92, 39, 9,
    220, 228, 114>>

\* the UTF-8 encoding of one code point
RefUtf8(cp) ==
  IF cp < 128 THEN <<cp>>
  ELSE IF cp < 2048 THEN <<192 + (cp \div 64), 128 + (cp % 64)>>
  ELSE IF cp < 65536 THEN <<224 + (cp \div 4096), 128 + ((cp \div 64) % 64), 128 + (cp % 64)>>
  ELSE <<240 + (cp \div 262144), 128 + ((cp \div 4096) % 64), 128 + ((cp \div 64) % 64),
         128 + (cp % 64)>>

RefHexDigit(v) == IF v < 10 THEN Ord("0") + v ELSE Ord("A") + (v - 10)

\* a byte as percent-encoding writes it: letters, digits and _ . - ~ / stay
RefQuoteByte(b) ==
  IF \/ (b >= Ord("A") /\ b <= Ord("Z")) \/ (b >= Ord("a") /\ b <= Ord("z"))
     \/ (b >= Ord("0") /\ b <= Ord("9"))
     \/ b \in {Ord("_"), Ord("."), Ord("-"), Ord("~"), Ord("/")}
  THEN <<b>>
  ELSE <<Ord("%"), RefHexDigit(b \div 16), RefHexDigit(b % 16)>>

RECURSIVE RefConcat(_, _, _)
\* parts[a] \o ... \o parts[b]
RefConcat(parts, a, b) ==
  IF a > b THEN <<>>
  ELSE IF a = b THEN parts[a]
  ELSE RefConcat(parts, a, (a + b) \div 2) \o RefConcat(parts, (a + b) \div 2 + 1, b)

\* percent-encoding of a str, as bytes
RefQuote(plain) ==
  RefConcat([n \in 1..Len(plain) |->
              LET u == RefUtf8(plain[n])
              IN RefConcat([m \in 1..Len(u) |-> RefQuoteByte(u[m])], 1, Len(u))],
            1, Len(plain))

RefB64Alphabet ==
  Str(<<"A", "B", "C", "D", "E", "F", "G", "H", "I", "J", "K", "L", "M", "N", "O", "P",
        "Q", "R", "S", "T", "U", "V", "W", "X", "Y", "Z", "a", "b", "c", "d", "e", "f",
        "g", "h", "i", "j", "k", "l", "m", "n", "o", "p", "q", "r", "s", "t", "u", "v",
        "w", "x", "y", "z", "0", "1", "2", "3", "4", "5", "6", "7", "8", "9", "+", "/">>)

\* the four characters of the g-th group of three bytes (the last may be short)
RefB64Group(b, g) ==
  LET b1 == b[3 * g - 2]
      b2 == IF 3 * g - 1 <= Len(b) THEN b[3 * g - 1] ELSE 0
      b3 == IF 3 * g <= Len(b) THEN b[3 * g] ELSE 0
  IN <<RefB64Alphabet[(b1 \div 4) + 1],
       RefB64Alphabet[((b1 % 4) * 16) + (b2 \div 16) + 1],
       IF 3 * g - 1 <= Len(b) THEN RefB64Alphabet[((b2 % 16) * 4) + (b3 \div 64) + 1]
       ELSE Ord("="),
       IF 3 * g <= Len(b) THEN RefB64Alphabet[(b3 % 64) + 1] ELSE Ord("=")>>

\* standard base64 with padding
RefB64Encode(b) ==
  RefConcat([g \in 1..((Len(b) + 2) \div 3) |-> RefB64Group(b, g)], 1, (Len(b) + 2) \div 3)

\* a standard-alphabet token in the substituted alphabet, and back
RefSubstitute(token) ==
  [n \in 1..Len(token) |-> IF token[n] = Ord("/") THEN Ord("_")
                           ELSE IF token[n] = Ord("+") THEN Ord("-") ELSE token[n]]

RefStandard(token) ==
  [n \in 1..Len(token) |-> IF token[n] = Ord("_") THEN Ord("/")
                           ELSE IF token[n] = Ord("-") THEN Ord("+") ELSE token[n]]

\* percent-encode, encrypt, base64-encode, substitute
RefEncode(plain) ==
  LET q == RefQuote(plain)
      ks == RefKeystream(Len(q))
  IN RefSubstitute(RefB64Encode([n \in 1..Len(q) |-> Xor(q[n], ks[n])]))

(***************************************************************************)
(* Bounds and inputs                                                       *)
(***************************************************************************)
MaxPlainLen == 2
MaxTokenLen == 3
MaxResults == 2

Threads == {"t1", "t2"}

RECURSIVE SeqsUpTo(_, _)
\* the sequences over alphabet of length at most n
SeqsUpTo(alphabet, n) ==
  IF n = 0 THEN {<<>>}
  ELSE LET shorter == SeqsUpTo(alphabet, n - 1)
       IN shorter \cup {Append(q, a) : q \in {x \in shorter : Len(x) = n - 1}, a \in alphabet}

ExampleUrl ==
  Str(<<"h", "t", "t", "p", "s", ":", "/", "/", "e", "x", "a", "m", "p", "l", "e", ".",
        "c", "o", "m", "/", "v", "i", "d", "e", "o", "?", "i", "d", "=", "4", "2">>)

\* a, %, e-acute (2 bytes), the euro sign (3 bytes), U+1F600 (4 bytes)
PlainAlphabet == {Ord("a"), Ord("%"), 233, 8364, 128512}

Plaintexts == SeqsUpTo(PlainAlphabet, MaxPlainLen) \cup {ExampleUrl}

EncodedTokens == {RefEncode(plain) : plain \in Plaintexts}

\* !, space and e-acute: outside the base64 alphabet
ForeignChars == {Ord("!"), Ord(" "), 233}

Take(seq, n) == IF n = 0 THEN <<>> ELSE SubSeq(seq, 1, n)

Drop(seq, n) == IF n >= Len(seq) THEN <<>> ELSE SubSeq(seq, n + 1, Len(seq))

InsertAt(token, pos, ch) == Take(token, pos) \o <<ch>> \o Drop(token, pos)

\* well-formed tokens with one foreign character put in, or the last character cut
DamagedTokens ==
  LET base == {RefEncode(plain) : plain \in {p \in Plaintexts : Len(p) <= 1}}
  IN UNION {{InsertAt(token, pos, ch) : pos \in 0..Len(token), ch \in ForeignChars} :
              token \in base}
       \cup {Take(token, Len(token) - 1) : token \in EncodedTokens \ {<<>>}}

ShortTokens ==
  SeqsUpTo({Ord("A"), Ord("_"), Ord("-"), Ord("="), Ord("!")}, MaxTokenLen)

\* the tokens of the step-by-step runs: empty, a path, both substituted
\* characters around a foreign one, an unfinished quad
StepTokens ==
  {<<>>, RefEncode(Str(<<"a", "/", "b">>)), Str(<<"A", "_", "!", "-", "=">>),
   Str(<<"A", "A", "=">>)}

ConcTokens == {RefEncode(Str(<<"a">>)), Str(<<"A", "_", "-", "=">>)}

Tokens ==
  EncodedTokens \cup {RefStandard(token) : token \in EncodedTokens}
    \cup DamagedTokens \cup ShortTokens \cup StepTokens \cup ConcTokens

(***************************************************************************)
(* State machine                                                           *)
(***************************************************************************)
IdleFrame == [NewFrame(<<>>) EXCEPT !.pc = "idle"]

EmptyCache == [x \in {} |-> [status_code |-> 0, data_id |-> FALSE]]

NoOp == [op |-> "none", id |-> 0, outcome |-> "", hit |-> FALSE, since |-> "never",
         cache |-> EmptyCache]

ScraperInit ==
  /\ search_cache = EmptyCache
  /\ pending = [alive |-> FALSE, results |-> <<>>]
  /\ last = NoOp
  /\ since_hit = "never"

IdleInit ==
  /\ frames = [c \in Threads |-> IdleFrame]
  /\ s = [c \in Threads |-> Zeros(256)]
  /\ log = {}
  /\ ScraperInit

\* one call of __deobf on a token of the input set, about to start
Init ==
  /\ \E token \in Tokens :
       frames = [c \in Threads |-> IF c = "t1" THEN NewFrame(token) ELSE IdleFrame]
  /\ s = [c \in Threads |-> Zeros(256)]
  /\ log = {}
  /\ ScraperInit

\* one table for all calls, as an attribute of the scraper would be
TableOfScraper(c) == "t1"

\* s is a local of the call: every call has a table of its own
TableOf(c) == c

\* thread c's call has become r = [f, s]
Becomes(c, r) ==
  /\ frames' = [frames EXCEPT ![c] = r.f]
  /\ s' = [s EXCEPT ![TableOf(c)] = r.s]
  /\ log' = IF r.f.pc = "done" THEN log \cup {<<r.f.encoded_url, r.f.result>>} ELSE log
  /\ UNCHANGED <<search_cache, pending, last, since_hit>>

\* __deobf from its first line to its return
DeobfCall(c) ==
  /\ frames[c].pc = "decode"
  /\ Becomes(c, Run(frames[c], s[TableOf(c)]))

\* a thread enters __deobf(token)
Call(c, token) ==
  /\ frames[c].pc \in {"idle", "done"}
  /\ frames' = [frames EXCEPT ![c] = NewFrame(token)]
  /\ UNCHANGED <<s, log, search_cache, pending, last, since_hit>>

CallOnce(c, token) == frames[c].pc = "idle" /\ Call(c, token)

Decode(c) ==
  /\ frames[c].pc = "decode"
  /\ Becomes(c, DecodeStep(frames[c], s[TableOf(c)]))

KsaInit(c) ==
  /\ frames[c].pc = "ksa_init"
  /\ Becomes(c, KsaInitStep(frames[c], s[TableOf(c)]))

KsaRound(c) ==
  /\ frames[c].pc = "ksa" /\ frames[c].it < 256
  /\ Becomes(c, KsaRoundStep(frames[c], s[TableOf(c)]))

PrgaInit(c) ==
  /\ frames[c].pc = "ksa" /\ frames[c].it >= 256
  /\ Becomes(c, PrgaInitStep(frames[c], s[TableOf(c)]))

PrgaRound(c) ==
  /\ frames[c].pc = "prga" /\ frames[c].it < Len(frames[c].binary_data.items)
  /\ Becomes(c, PrgaRoundStep(frames[c], s[TableOf(c)]))

Return(c) ==
  /\ frames[c].pc = "prga" /\ frames[c].it >= Len(frames[c].binary_data.items)
  /\ Becomes(c, ReturnStep(frames[c], s[TableOf(c)]))

Next == DeobfCall("t1")

Spec == Init /\ [][Next]_vars

\* one thread calling __deobf again and again, a step at a time
NextSteps ==
  \/ \E token \in StepTokens : Call("t1", token)
  \/ Decode("t1")
  \/ KsaInit("t1")
  \/ KsaRound("t1")
  \/ PrgaInit("t1")
  \/ PrgaRound("t1")
  \/ Return("t1")

SpecSteps == IdleInit /\ [][NextSteps]_vars

\* two threads, one call each, their steps interleaved
NextConc ==
  \E c \in Threads :
    \/ \E token \in ConcTokens : CallOnce(c, token)
    \/ Decode(c)
    \/ KsaInit(c)
    \/ KsaRound(c)
    \/ PrgaInit(c)
    \/ PrgaRound(c)
    \/ Return(c)

SpecConc == IdleInit /\ [][NextConc]_vars

(***************************************************************************)
(* search and scrape                                                       *)
(***************************************************************************)
MediaIds == {603, 1399}

Metadata == [id : MediaIds, type : {"MOVIE", "SERIES"}]

\* what tmdb.search can yield: the ids of the results, in order
ResultLists == SeqsUpTo(MediaIds, MaxResults)

\* the embed responses that are no 404: with or without an <a data-id>
EmbedResponses == {[status_code |-> 200, data_id |-> b] : b \in BOOLEAN}

\* the tokens the source endpoint can answer with
SourceTokens == StepTokens

\* self.__search_cache[id] = response
Put(cache, id, response) ==
  [x \in DOMAIN cache \cup {id} |-> IF x = id THEN response ELSE cache[x]]

\* only the entry looked up is dropped
PopEntry(cache, id) == [x \in DOMAIN cache \ {id} |-> cache[x]]

\* self.__search_cache.clear(), in the scrape of id
ClearCache(cache, id) == EmptyCache

\* search(query): the generator is made; nothing runs before its first next()
Search(results) ==
  /\ pending' = [alive |-> TRUE, results |-> results]
  /\ last' = [NoOp EXCEPT !.op = "search", !.since = since_hit]
  /\ UNCHANGED <<frames, s, log, search_cache, since_hit>>

\* next() on the generator up to its next yield: the n-1 results before
\* were answered 404 and skipped, the n-th is cached and yielded
SearchYield(n, response) ==
  /\ pending.alive /\ n \in 1..Len(pending.results)
  /\ search_cache' = Put(search_cache, pending.results[n], response)
  /\ pending' = [alive |-> TRUE, results |-> Drop(pending.results, n)]
  /\ last' = [NoOp EXCEPT !.op = "yield", !.id = pending.results[n], !.since = since_hit]
  /\ since_hit' = IF since_hit = "never" THEN "never" ELSE "yield"
  /\ UNCHANGED <<frames, s, log>>

\* next() on the generator when every result left is answered 404
SearchExhausted ==
  /\ pending.alive
  /\ pending' = [alive |-> FALSE, results |-> <<>>]
  /\ last' = [NoOp EXCEPT !.op = "exhausted", !.since = since_hit]
  /\ UNCHANGED <<frames, s, log, search_cache, since_hit>>

\* how scrape ends once the cache entry is found and the cache cleared
ScrapeOutcome(metadata, embed_response, has_vidplay, token) ==
  IF ~embed_response.data_id THEN "MediaNotFound"
  ELSE IF ~has_vidplay THEN "MediaNotFound"
  ELSE LET vidplay_url == Deobf(token).result
       IN IF vidplay_url.exc # "" THEN vidplay_url.exc
          ELSE IF metadata.type = "SERIES" THEN "Series" ELSE "Movie"

\* scrape(metadata, episode); has_vidplay and token are what the sources
\* and source endpoints answer
Scrape(metadata, has_vidplay, token) ==
  LET hit == metadata.id \in DOMAIN search_cache
  IN /\ search_cache' = IF hit THEN ClearCache(search_cache, metadata.id) ELSE search_cache
     /\ last' = [op |-> "scrape", id |-> metadata.id, hit |-> hit, since |-> since_hit,
                 cache |-> search_cache,
                 outcome |-> IF hit
                             THEN ScrapeOutcome(metadata, search_cache[metadata.id],
                                                has_vidplay, token)
                             ELSE "KeyError"]
     /\ since_hit' = IF hit THEN "none" ELSE since_hit
     /\ UNCHANGED <<frames, s, log, pending>>

NextScraper ==
  \/ \E results \in ResultLists : Search(results)
  \/ \E n \in 1..MaxResults, response \in EmbedResponses : SearchYield(n, response)
  \/ SearchExhausted
  \/ \E metadata \in Metadata, has_vidplay \in BOOLEAN, token \in SourceTokens :
       Scrape(metadata, has_vidplay, token)

SpecScraper == IdleInit /\ [][NextScraper]_vars

(***************************************************************************)
(* Properties of one call of __deobf (specification Spec)                  *)
(***************************************************************************)
Call1 == frames["t1"]

ExampleToken == RefEncode(ExampleUrl)

EncodedPairs == {<<RefEncode(plain), plain>> : plain \in Plaintexts}

\* C1: round trip. A call on the token the reference encoder makes of a
\* plaintext (percent-encode, encrypt, base64, substitute) returns exactly
\* that plaintext, the empty one included.
C1_RoundTrip ==
  Call1.pc = "done" =>
    \A pair \in EncodedPairs :
      Call1.encoded_url = pair[1] => Call1.result = Ok(pair[2])

\* the call on the token of the example URL has returned the example URL
C1_Witness ==
  /\ Call1.pc = "done"
  /\ Call1.encoded_url = ExampleToken
  /\ Call1.result = Ok(ExampleUrl)

\* a character of the standard base64 alphabet, or the pad
RefIsBase64(ch) == ch = Ord("=") \/ \E n \in 1..64 : RefB64Alphabet[n] = ch

\* C2: malformed-input rejection. A call on a token that holds, after the
\* substitution, a character outside the standard base64 alphabet ends in
\* an error and returns nothing.
C2_MalformedRejected ==
  (/\ Call1.pc = "done"
   /\ \E n \in 1..Len(Call1.encoded_url) : ~RefIsBase64(RefStandard(Call1.encoded_url)[n]))
  => Call1.result.exc # ""

\* C3: alphabet substitution. A call on a token with '_' or '-' ends as the
\* call on the same token written in the standard alphabet ('/' for '_',
\* '+' for '-') ends.
C3_Substitution ==
  (/\ Call1.pc = "done"
   /\ \E n \in 1..Len(Call1.encoded_url) : Call1.encoded_url[n] \in {Ord("_"), Ord("-")})
  => Call1.result = Deobf(RefStandard(Call1.encoded_url)).result

\* the call on "A_-=", which holds both substituted characters, has returned ">w"
C3_Witness ==
  /\ Call1.pc = "done"
  /\ Call1.encoded_url = Str(<<"A", "_", "-", "=">>)
  /\ Call1.result = Ok(Str(<<">", "w">>))

\* C4: keystream. When the base64 step yields n bytes B, the call's decoded
\* bytes are n bytes with decoded[p] = B[p] XOR ks[p], ks being the
\* keystream of the textbook key schedule and generator under the fixed
\* secret, which begins as the independently computed vector does.
C4_Keystream ==
  (Call1.pc = "done" /\ Call1.binary_data.type = "bytes") =>
    LET B == Call1.binary_data.items
        ks == RefKeystream(Len(B))
    IN /\ Call1.decoded.type = "bytearray"
       /\ Len(Call1.decoded.items) = Len(B)
       /\ \A p \in 1..Len(B) :
            /\ Call1.decoded.items[p] = Xor(B[p], ks[p])
            /\ p <= Len(GoldenKeystream) => ks[p] = GoldenKeystream[p]

\* a call has decrypted the 37 bytes of the example URL's token
C4_Witness ==
  /\ Call1.pc = "done"
  /\ Call1.encoded_url = ExampleToken
  /\ Len(Call1.decoded.items) = 37

\* C8: the False sentinel is dead. Every iteration of the decryption loop
\* takes the integer branch, decoded is never replaced by False, and the
\* call neither fails on a boolean nor returns one.
C8_NoSentinel ==
  Call1.pc = "done" =>
    /\ Call1.branches \subseteq {"int"}
    /\ Call1.decoded.type # "bool"
    /\ Call1.result.exc \notin {"TypeError", "AttributeError"}
    /\ Call1.binary_data.type = "bytes" => Call1.prga_iters = Len(Call1.binary_data.items)

\* a call has run the decryption loop several times, on the integer branch
C8_Witness ==
  /\ Call1.pc = "done"
  /\ Call1.prga_iters >= 3
  /\ Call1.branches = {"int"}

(***************************************************************************)
(* Properties of calls run a step at a time (SpecSteps, SpecConc)          *)
(***************************************************************************)
IsPermutation(table) ==
  Len(table) = 256 /\ {table[n] : n \in 1..256} = 0..255

IsByte(x) == x \in 0..255

\* C5: determinism across calls. Among the calls that have returned, two on
\* the same token ended the same way; and whatever ran before, a call
\* starts its key schedule on the identity table with j = 0 and its
\* decryption loop with i = k = 0.
C5_Deterministic ==
  /\ \A a \in log, b \in log : a[1] = b[1] => a[2] = b[2]
  /\ \A c \in Threads :
       /\ (frames[c].pc = "ksa" /\ frames[c].it = 0) =>
            (s[c] = Range(0, 255) /\ frames[c].j = 0)
       /\ (frames[c].pc = "prga" /\ frames[c].it = 0) =>
            (frames[c].i = 0 /\ frames[c].k = 0)

\* a token that has been decoded to a non-empty string before, as has another
\* token, is being decoded again and is about to start its rounds
C5_Witness ==
  /\ Cardinality(log) >= 2
  /\ \E a \in log : a[1] = frames["t1"].encoded_url /\ a[2].exc = "" /\ a[2].value # <<>>
  /\ frames["t1"].pc = "ksa" /\ frames["t1"].it = 0
  /\ s["t1"] # Zeros(256)

\* C6: the empty token. The call runs all 256 rounds of the key schedule
\* and no iteration of the decryption loop, and returns the empty string.
C6_EmptyToken ==
  (frames["t1"].pc = "done" /\ frames["t1"].encoded_url = <<>>) =>
    /\ frames["t1"].result = Ok(<<>>)
    /\ frames["t1"].ksa_rounds = 256
    /\ frames["t1"].prga_iters = 0

\* the call on the empty token has returned
C6_Witness ==
  /\ frames["t1"].pc = "done"
  /\ frames["t1"].encoded_url = <<>>
  /\ frames["t1"].result.exc = ""

\* C9: permutation. After every round of the key schedule and every
\* iteration of the decryption loop, s holds each of 0..255 once and the
\* indices i, j (key schedule) and i, k, t (decryption) are in 0..255.
C9_Permutation ==
  \A c \in Threads :
    /\ frames[c].pc \in {"ksa", "prga"} => IsPermutation(s[c])
    /\ (frames[c].pc = "ksa" /\ frames[c].ksa_rounds >= 1) =>
         (IsByte(frames[c].i) /\ IsByte(frames[c].j))
    /\ frames[c].pc = "prga" => (IsByte(frames[c].i) /\ IsByte(frames[c].k))
    /\ frames[c].prga_iters >= 1 => IsByte(frames[c].t)

\* the decryption loop has run twice on a table the key schedule shuffled
C9_Witness ==
  /\ frames["t1"].pc = "prga"
  /\ frames["t1"].prga_iters = 2
  /\ frames["t1"].ksa_rounds = 256
  /\ s["t1"] # Range(0, 255)

\* the steps a call has taken, read off its position
StepsTaken(f) ==
  IF f.pc = "decode" THEN 0
  ELSE IF f.pc = "ksa_init" THEN 1
  ELSE IF f.pc = "ksa" THEN 2 + f.it
  ELSE IF f.pc = "prga" THEN 259 + f.it
  ELSE MaxSteps(Len(f.encoded_url))

\* the frame and table of a call on each token of the concurrent runs after
\* each number of steps, when the call runs alone
AloneTrace ==
  [token \in ConcTokens |->
    [n \in 0..MaxSteps(Len(token)) |->
      RunSteps([f |-> NewFrame(token), s |-> Zeros(256)], n)]]

\* C7: no interference. However the steps of two calls interleave, each
\* call has at every step the locals and the table it has at that step
\* when run alone, and so returns what it returns when run alone.
C7_NoInterference ==
  \A c \in Threads :
    frames[c].pc # "idle" =>
      LET alone == AloneTrace[frames[c].encoded_url][StepsTaken(frames[c])]
      IN frames[c] = alone.f /\ s[c] = alone.s

\* one call has returned "a" while the other, on a different token, is in
\* the middle of its key schedule
C7_Witness ==
  /\ frames["t1"].pc = "done" /\ frames["t1"].result = Ok(Str(<<"a">>))
  /\ frames["t2"].pc = "ksa" /\ frames["t2"].it = 128
  /\ frames["t2"].encoded_url # frames["t1"].encoded_url

(***************************************************************************)
(* Properties of the search cache (SpecScraper)                            *)
(***************************************************************************)
\* C10: scrape consumes the cache. A scrape that finds its entry leaves the
\* cache empty however it ends; a scrape with no result yielded since the
\* last scrape that found its entry fails at the lookup; and a scrape whose
\* lookup fails leaves the cache as it was.
C10_CacheConsumed ==
  last.op = "scrape" =>
    /\ last.hit => (DOMAIN search_cache = {} /\ last.outcome # "KeyError")
    /\ last.since = "none" => ~last.hit
    /\ ~last.hit => (last.outcome = "KeyError" /\ search_cache = last.cache)

\* a scrape has just failed at the lookup, an earlier scrape having found
\* its entry and nothing having been yielded since
C10_Witness ==
  /\ last.op = "scrape" /\ last.since = "none" /\ last.outcome = "KeyError"
  /\ DOMAIN search_cache = {}

====
